---------------------------- MODULE Spec2Model ----------------------------
(***************************************************************************)
(* A model of the reactive signals engine of src/mod.ts: signals, computed *)
(* signals, effects, the batch scheduler and the dependency tracking.      *)
(*                                                                         *)
(* The engine is single threaded and re-entrant, so every public operation *)
(* (a signal write, a computed read, effect(), _dispose(), batch()) is one *)
(* action.  The action evaluates the whole call tree of the operation on   *)
(* a record w ("the world") that holds every field of every object and     *)
(* every module-level variable; each function of the source is an operator *)
(* from worlds to worlds.  Client callbacks (effect bodies, compute        *)
(* functions, cleanup functions) are small programs, interpreted by Exec.  *)
(***************************************************************************)
EXTENDS Integers, Sequences, FiniteSets, TLC

(***************************************************************************)
(* Flags (const enum Flags).  A flag word is modelled as the set of the    *)
(* names of the bits that are set.                                         *)
(***************************************************************************)
RUNNING == "RUNNING"
DIRTY == "DIRTY"
MAYBE_DIRTY == "MAYBE_DIRTY"
TRACKING == "TRACKING"
NOTIFIED == "NOTIFIED"
DISPOSED == "DISPOSED"
HAS_ERROR == "HAS_ERROR"

\* undefined, for variables that hold an object or undefined
None == "none"

(***************************************************************************)
(* Bounds of the model.                                                    *)
(***************************************************************************)
\* signal values written by the environment are 0..MaxVal
MaxVal == 1
\* the environment starts no operation once write_clock has reached
\* MaxWrites or read_clock has reached MaxRuns
MaxWrites == 3
MaxRuns == 5

\* client callbacks nest at most StackLimit deep: the call that would go
\* deeper throws instead (the call stack of the host is finite)
StackLimit == 5

\* the cycle guard of Signal.set value / end_batch
MaxBatchIteration == 100

\* the model follows a drain for at most MaxWaves waves
MaxWaves == 128

(***************************************************************************)
(* The objects.  Signals and computeds are constructed up front (their     *)
(* constructors touch no shared state); effects are constructed and first  *)
(* run by the action CreateEffect.                                         *)
(***************************************************************************)
Signals == {"a", "b", "c"}
Computeds == {"d1", "d2"}
Effects == {"e1", "e2", "e3"}
Sources == Signals \cup Computeds
Listeners == Computeds \cup Effects
Nodes == Signals \cup Computeds \cup Effects

\* values thrown by client callbacks, and the Error of cleanup()
Err1 == 101
Err2 == 102
CleanupOutsideEffect == 199
\* the RangeError of a call that exceeds the call stack
StackOverflow == 198


(***************************************************************************)
(* State.  One variable per field of the classes Signal, Computed and      *)
(* Effect (a function over the objects) and per module-level variable.     *)
(***************************************************************************)
VARIABLES
    value,                  \* _value of every signal, computed and effect
    epoch,                  \* _epoch
    access_epoch,           \* Signal._access_epoch
    dependants,             \* Signal._dependants, an array
    dependencies,           \* Computed/Effect._dependencies, an array
    flags,                  \* Computed/Effect._flags
    realm_write_epoch,      \* Computed._realm_write_epoch
    context_epoch,          \* Computed/Effect._context_epoch
    cleanups,               \* Effect._cleanups, an array of cleanup functions
    next_batched_effect,    \* Effect._next_batched_effect
    eval_listener,
    eval_sources_index,
    eval_untracked_sources, \* <<>> is undefined: a defined array is never empty
    batched_effect,
    batch_depth,
    batch_iteration,
    write_clock,
    read_clock,
    scenario,               \* which client program is running (never changes)
    reads,                  \* per listener: the sources its latest run read
                            \* while it was the current listener
    computes,               \* per computed: runs of its compute function
                            \* since the last value-changing signal write
    first_read,             \* per computed: what its first read since that
                            \* write returned or threw, -1 if not read yet
    unequal_read,           \* the computeds of which a later read differed
    stamp,                  \* per listener: write_clock when the latest run
                            \* of its function ended, -1 if it never ran
    created,                \* the effects that effect() has constructed
    op,                     \* the last public operation
    log,                    \* what ran during the last public operation
    thrown,                 \* the value the last operation threw, 0 if none
    endless                 \* a drain of the last operation did not end
                            \* within MaxWaves waves

engine == <<value, epoch, access_epoch, dependants, dependencies, flags,
            realm_write_epoch, context_epoch, cleanups, next_batched_effect,
            eval_listener, eval_sources_index, eval_untracked_sources,
            batched_effect, batch_depth, batch_iteration, write_clock,
            read_clock>>
history == <<reads, computes, first_read, unequal_read, stamp>>
vars == <<engine, scenario, history, created, op, log, thrown, endless>>

\* The world at the start of a public operation.  exc/err: an exception is
\* propagating, and its value; acc: the running callback's local
\* accumulator; ret/res: the last call's return value; has_error/error: the
\* locals of the running end_batch; depth: how deep client callbacks nest;
\* endless: a drain was cut short by the model.
World ==
    [value |-> value, epoch |-> epoch, access_epoch |-> access_epoch,
     dependants |-> dependants, dependencies |-> dependencies,
     flags |-> flags, realm_write_epoch |-> realm_write_epoch,
     context_epoch |-> context_epoch, cleanups |-> cleanups,
     next_batched_effect |-> next_batched_effect,
     eval_listener |-> eval_listener,
     eval_sources_index |-> eval_sources_index,
     eval_untracked_sources |-> eval_untracked_sources,
     batched_effect |-> batched_effect, batch_depth |-> batch_depth,
     batch_iteration |-> batch_iteration, write_clock |-> write_clock,
     read_clock |-> read_clock,
     reads |-> reads, computes |-> computes, first_read |-> first_read,
     unequal_read |-> unequal_read, stamp |-> stamp,
     log |-> <<>>, exc |-> FALSE, err |-> 0, acc |-> 0, ret |-> 0,
     res |-> FALSE, has_error |-> FALSE, error |-> 0, depth |-> 0,
     endless |-> FALSE]

Throw(w, e) == [w EXCEPT !.exc = TRUE, !.err = e]
\* Log entries: k is "run" (the body of effect n starts), "threw" (it threw
\* v), "compute" (the compute function of n starts), "computed" (it returned
\* v), "failed" (it threw v), "cleanup" (cleanup function n of effect by
\* is called), "cfailed" (it threw v), "register" (cleanup(n) called
\* by the body of effect by), "queue" (effect n is put on the batch queue with flag
\* by), "wave" (end_batch takes the queue, v being batch_iteration), "write"
\* (signal n is given the new value v, want being batch_iteration),
\* "returned" (the callback of the outermost batch returned), "read"
\* (callback by read n and got v, eval_listener being l; want is what n is
\* worth by definition at that instant), "renotified" (n._notify(by) was
\* called while n was running; v is 1 if the flags of n changed, want is 1
\* if the batch queue changed).
Logged(w, k, n, by, v, want) ==
    [w EXCEPT !.log = Append(@, [k |-> k, n |-> n, by |-> by, v |-> v,
                                 want |-> want, l |-> w.eval_listener])]

\* a read of computed d returned or threw rv
NoteRead(w, d, rv) ==
    IF w.first_read[d] = -1 THEN [w EXCEPT !.first_read[d] = rv]
    ELSE IF w.first_read[d] # rv
    THEN [w EXCEPT !.unequal_read = @ \cup {d}]
    ELSE w


(***************************************************************************)
(* Client code.  A callback (an effect body, a compute function, a cleanup *)
(* function, a batch callback) is a sequence of instructions:              *)
(*   Get(n)       acc += n.value                  (tracked read)           *)
(*   Peek(n)      acc += n.peek()                                          *)
(*   If(n, t, e)  if (n.value) { t } else { e }   (tracked read of n)      *)
(*   Untrack(b)   untrack(() => { b })                                     *)
(*   Set(n, v)    n.value = v                                              *)
(*   Cleanup(c)   cleanup(c)                                               *)
(*   Raise(e)     throw e                                                  *)
(*   Sign         acc = acc > 0 ? 1 : 0                                    *)
(*   Dispose(n)   n._dispose()                                             *)
(*   InBatch(b)   batch(() => { b })                                       *)
(*   Try(b)       try { b } catch {}                                       *)
(* and it returns acc.                                                     *)
(***************************************************************************)
Get(n) == [op |-> "get", n |-> n]
Peek(n) == [op |-> "peek", n |-> n]
If(n, t, e) == [op |-> "if", n |-> n, then |-> t, else |-> e]
Untrack(b) == [op |-> "untrack", body |-> b]
Set(n, v) == [op |-> "set", n |-> n, v |-> v]
Cleanup(c) == [op |-> "cleanup", c |-> c]
Raise(e) == [op |-> "throw", err |-> e]
Sign == [op |-> "sign"]
Dispose(n) == [op |-> "dispose", n |-> n]
InBatch(b) == [op |-> "batch", body |-> b]
Try(b) == [op |-> "try", body |-> b]

(***************************************************************************)
(* The client programs checked.  A scenario names its signals, the         *)
(* function of each computed and effect it creates, its cleanup functions, *)
(* the callbacks its environment passes to batch(), and how far beyond the *)
(* bounds its clocks may run.                                              *)
(***************************************************************************)
\* Effects whose read sequence depends on what they read (spec 8, scenario
\* 3), one of which registers a cleanup function (scenario 6), and a
\* computed nobody subscribes to (scenario 4).
Dyn ==
    [signals |-> {"a", "c"},
     body |-> [d1 |-> <<If("a", <<Get("c")>>, <<>>)>>,
               e1 |-> <<Cleanup("x"), If("c", <<Get("a")>>, <<>>)>>,
               e2 |-> <<Get("a"), Get("c")>>],
     cleanup |-> [x |-> <<>>],
     slack |-> 0,
     batches |-> {<<Set("a", 1), Set("c", 1)>>, <<Set("c", 1), Set("c", 0)>>}]

\* A chain and a diamond of computeds (spec 8, scenarios 4 and 5).
Lazy ==
    [signals |-> {"a", "b"},
     body |-> [d1 |-> <<Get("a"), Get("b"), Sign>>,
               d2 |-> <<Get("d1"), Get("b")>>,
               e1 |-> <<Get("d1"), Get("d2")>>],
     cleanup |-> [x |-> <<>>],
     slack |-> 0,
     batches |-> {<<Set("a", 1), Peek("d2"), Set("b", 1)>>,
                  <<Set("a", 0), Peek("d2"), Set("a", 1)>>}]

\* Reads inside untrack(), in an effect and in a computed, with an untrack
\* callback that throws (when b is truthy) inside try/catch.
Untracked ==
    [signals |-> {"a", "b", "c"},
     body |-> [d1 |-> <<Untrack(<<Get("a")>>), Get("c")>>,
               e1 |-> <<Get("a"),
                        Try(<<Untrack(<<If("b", <<Raise(Err1)>>, <<>>)>>)>>),
                        Get("c")>>,
               e2 |-> <<Untrack(<<Get("d1"), Get("b")>>)>>],
     cleanup |-> [x |-> <<>>],
     slack |-> 0,
     batches |-> {<<Set("b", 1), Set("c", 1)>>, <<Set("b", 0), Set("a", 0)>>}]

\* Two effects whose bodies throw when a is truthy, beside an effect that
\* never throws and that one of the batch callbacks disposes while it is
\* queued.
Failing ==
    [signals |-> {"a"},
     body |-> [d1 |-> <<Get("a")>>,
               e1 |-> <<If("a", <<Raise(Err1)>>, <<>>)>>,
               e2 |-> <<If("a", <<Raise(Err2)>>, <<>>)>>,
               e3 |-> <<Get("a")>>],
     cleanup |-> [x |-> <<>>],
     slack |-> 0,
     batches |-> {<<Set("a", 1), Dispose("e3")>>, <<Set("a", 0), Set("a", 1)>>}]

\* A computed that throws when a is truthy and returns 0 otherwise, a
\* computed that reads it, an effect that reads it inside try/catch and an
\* effect that reads the second computed and lets the error escape.
Erring ==
    [signals |-> {"a"},
     body |-> [d1 |-> <<If("a", <<Raise(Err1)>>, <<>>)>>,
               d2 |-> <<Get("d1")>>,
               e1 |-> <<Try(<<Get("d1")>>)>>,
               e2 |-> <<Get("d2")>>],
     cleanup |-> [x |-> <<>>],
     slack |-> 3,
     batches |-> {<<Set("a", 1), Set("a", 0)>>, <<Set("a", 1)>>}]

\* Effects that register cleanup functions: e1 throws in its first run
\* unless a is truthy, after it read a and registered two cleanup functions;
\* cleanup function y throws when b is truthy; cleanup function z disposes
\* the effect that registered it.  One batch callback disposes e2 while it
\* is queued.
Cleaning ==
    [signals |-> {"a", "b"},
     body |-> [d1 |-> <<Get("a")>>,
               e1 |-> <<Cleanup("y"), If("a", <<>>, <<Raise(Err1)>>), Cleanup("x")>>,
               e2 |-> <<Get("d1"), Cleanup("x"), Cleanup("y"), Cleanup("x")>>,
               e3 |-> <<Get("a"), Cleanup("z")>>],
     cleanup |-> [x |-> <<>>,
                  y |-> <<If("b", <<Raise(Err2)>>, <<>>)>>,
                  z |-> <<Dispose("e3")>>],
     slack |-> 0,
     batches |-> {<<Set("a", 1), Dispose("e2")>>, <<Set("b", 1), Set("a", 0)>>}]

\* A chain of computeds (d2 reads d1 reads b) that effects subscribe to
\* and leave: e1 reads d1 only while a is truthy, e2 reads d2.
Shedding ==
    [signals |-> {"a", "b"},
     body |-> [d1 |-> <<Get("b")>>,
               d2 |-> <<Get("d1")>>,
               e1 |-> <<If("a", <<Get("d1")>>, <<>>)>>,
               e2 |-> <<Get("d2")>>],
     cleanup |-> [x |-> <<>>],
     slack |-> 0,
     batches |-> {<<Set("a", 1), Dispose("e2")>>, <<Set("b", 1), Set("a", 0)>>}]

\* Computeds whose value never changes although their sources do: d1 reads
\* a and is always 0, d2 reads b and d1 and is always what d1 is.  e3 reads
\* a, then d1, which reads a, then a again.
Steady ==
    [signals |-> {"a", "b"},
     body |-> [d1 |-> <<If("a", <<>>, <<>>)>>,
               d2 |-> <<If("b", <<>>, <<>>), Get("d1")>>,
               e1 |-> <<Get("d1")>>,
               e2 |-> <<Get("d2")>>,
               e3 |-> <<Get("a"), Get("d1"), Get("a")>>],
     cleanup |-> [x |-> <<>>],
     slack |-> 0,
     batches |-> {<<Set("a", 1), Set("b", 1)>>, <<Set("a", 0), Peek("d2")>>}]

\* Effects that write signals: e1 copies a to b, e2 reads a and b, e3 reads
\* b; a write to a queues e1 and e2, and the run of e1 queues e2 and e3
\* for the next wave.  The environment writes a only.
Waves ==
    [signals |-> {"a"},
     body |-> [d1 |-> <<Get("b")>>,
               e1 |-> <<If("a", <<Set("b", 1)>>, <<Set("b", 0)>>)>>,
               e2 |-> <<Get("a"), Get("b")>>,
               e3 |-> <<Get("b")>>],
     cleanup |-> [x |-> <<>>],
     slack |-> 0,
     batches |-> {<<Set("a", 1), Peek("d1")>>}]

\* Effects that keep writing each other's input: e1 sets b to the negation
\* of a, e2 copies b to a.  The environment writes a only.
Cycle ==
    [signals |-> {"a"},
     body |-> [d1 |-> <<Get("a")>>,
               e1 |-> <<If("a", <<Set("b", 0)>>, <<Set("b", 1)>>)>>,
               e2 |-> <<If("b", <<Set("a", 1)>>, <<Set("a", 0)>>)>>],
     cleanup |-> [x |-> <<>>],
     slack |-> 0,
     batches |-> {<<Set("a", 1), Peek("d1")>>}]

\* Listeners that write what they read: e1 reads a, directly and through the
\* computed d2, and writes a; the computed d1 reads and writes b and is kept
\* subscribed by e2.  The environment writes a, and b in a batch.
Reentrant ==
    [signals |-> {"a"},
     body |-> [d1 |-> <<Get("b"), Set("b", 1)>>,
               d2 |-> <<Get("a")>>,
               e1 |-> <<Get("a"), Get("d2"), Set("a", 1)>>,
               e2 |-> <<Get("d1")>>],
     cleanup |-> [x |-> <<>>],
     slack |-> 2,
     batches |-> {<<Set("a", 0), Set("b", 0)>>}]

\* An effect that disposes itself while its body runs: e1 registers the
\* cleanup function t, which throws while b is truthy, and disposes itself
\* while a is truthy.  e2 and d1 read a.
Quitting ==
    [signals |-> {"a", "b"},
     body |-> [d1 |-> <<Get("a")>>,
               e1 |-> <<Cleanup("t"), If("a", <<Dispose("e1")>>, <<>>)>>,
               e2 |-> <<Get("a")>>],
     cleanup |-> [t |-> <<If("b", <<Raise(Err2)>>, <<>>)>>],
     slack |-> 0,
     batches |-> {<<Set("b", 1), Set("a", 1)>>}]

Programs == [dyn |-> Dyn, lazy |-> Lazy, untracked |-> Untracked,
             failing |-> Failing, erring |-> Erring, cleaning |-> Cleaning,
             shedding |-> Shedding, steady |-> Steady, waves |-> Waves,
             cycle |-> Cycle, reentrant |-> Reentrant,
             quitting |-> Quitting]
Scenarios == DOMAIN Programs

ScenarioSignals == Programs[scenario].signals
ScenarioComputeds == DOMAIN Programs[scenario].body \cap Computeds
ScenarioEffects == DOMAIN Programs[scenario].body \cap Effects

\* the function passed to computed() or effect() for listener n
Body(n) == Programs[scenario].body[n]
\* the function passed to cleanup()
CleanupBody(c) == Programs[scenario].cleanup[c]
\* the callbacks the environment passes to batch()
BatchCallbacks == Programs[scenario].batches

(***************************************************************************)
(* Arrays.  Indices are 1-based here and 0-based in the source.            *)
(***************************************************************************)
\* Array.prototype.indexOf, 0-based, -1 when absent
IndexOf(arr, x) ==
    IF \E i \in 1..Len(arr) : arr[i] = x
    THEN (CHOOSE i \in 1..Len(arr) :
              arr[i] = x /\ \A j \in 1..(i - 1) : arr[j] # x) - 1
    ELSE -1

\* arr.splice(index, 1): a negative index counts from the end of the array
Splice1(arr, index) ==
    LET start == IF index < 0
                 THEN (IF Len(arr) + index > 0 THEN Len(arr) + index ELSE 0)
                 ELSE index
    IN  IF start < Len(arr)
        THEN SubSeq(arr, 1, start) \o SubSeq(arr, start + 2, Len(arr))
        ELSE arr

(***************************************************************************)
(* start_batch                                                             *)
(***************************************************************************)
start_batch(w) == [w EXCEPT !.batch_depth = @ + 1]

(***************************************************************************)
(* _subscribe / _unsubscribe of Signal and Computed                        *)
(***************************************************************************)
Signal_subscribe(w, s, target) ==
    [w EXCEPT !.dependants[s] = Append(@, target)]

Signal_unsubscribe(w, s, target) ==
    [w EXCEPT !.dependants[s] = Splice1(@, IndexOf(@, target))]

RECURSIVE Subscribe(_, _, _), SubscribeEach(_, _, _, _)
RECURSIVE Unsubscribe(_, _, _), UnsubscribeEach(_, _, _, _)

\* for (i = from - 1; i < arr.length; i++) arr[i]._subscribe(target)
SubscribeEach(w, arr, from, target) ==
    IF from > Len(arr) THEN w
    ELSE SubscribeEach(Subscribe(w, arr[from], target), arr, from + 1, target)

UnsubscribeEach(w, arr, from, target) ==
    IF from > Len(arr) THEN w
    ELSE UnsubscribeEach(Unsubscribe(w, arr[from], target), arr, from + 1, target)

Computed_subscribe(w, d, target) ==
    LET w1 == IF Len(w.dependants[d]) < 1
              THEN SubscribeEach([w EXCEPT !.flags[d] = @ \cup {TRACKING}],
                                 w.dependencies[d], 1, d)
              ELSE w
    IN  Signal_subscribe(w1, d, target)

\* an unsubscribe that leaves the computed subscribed to its own sources
Computed_unsubscribe_shallow(w, d, target) == Signal_unsubscribe(w, d, target)

Computed_unsubscribe(w, d, target) ==
    LET w1 == Signal_unsubscribe(w, d, target)
    IN  IF Len(w1.dependants[d]) < 1
        THEN UnsubscribeEach([w1 EXCEPT !.flags[d] = @ \ {TRACKING}],
                             w1.dependencies[d], 1, d)
        ELSE w1

Subscribe(w, src, target) ==
    IF src \in Computeds THEN Computed_subscribe(w, src, target)
    ELSE Signal_subscribe(w, src, target)

Unsubscribe(w, src, target) ==
    IF src \in Computeds THEN Computed_unsubscribe(w, src, target)
    ELSE Signal_unsubscribe(w, src, target)

(***************************************************************************)
(* _notify of Effect and Computed                                          *)
(***************************************************************************)
\* the last effect of the list that starts at effect x
RECURSIVE LastQueued(_, _)
LastQueued(w, x) ==
    IF w.next_batched_effect[x] = None THEN x
    ELSE LastQueued(w, w.next_batched_effect[x])

\* a _notify that puts the effect at the end of the list
Effect_notify_fifo(w, e, flag) ==
    IF w.flags[e] \cap {NOTIFIED, RUNNING} = {}
    THEN LET q == [Logged(w, "queue", e, flag, 0, 0) EXCEPT
                       !.flags[e] = @ \cup {flag, NOTIFIED}]
         IN  IF w.batched_effect = None THEN [q EXCEPT !.batched_effect = e]
             ELSE [q EXCEPT
                       !.next_batched_effect[LastQueued(w, w.batched_effect)] = e]
    ELSE w

\* a _notify that queues an effect while it is running
Effect_notify_running(w, e, flag) ==
    IF NOTIFIED \notin w.flags[e]
    THEN [Logged(w, "queue", e, flag, 0, 0) EXCEPT
                   !.flags[e] = @ \cup {flag, NOTIFIED},
                   !.next_batched_effect[e] = w.batched_effect,
                   !.batched_effect = e]
    ELSE w

Effect_notify(w, e, flag) ==
    IF w.flags[e] \cap {NOTIFIED, RUNNING} = {}
    THEN [Logged(w, "queue", e, flag, 0, 0) EXCEPT
                   !.flags[e] = @ \cup {flag, NOTIFIED},
                   !.next_batched_effect[e] = w.batched_effect,
                   !.batched_effect = e]
    ELSE w

RECURSIVE Notify(_, _, _), NotifyEach(_, _, _, _)

NotifyEach(w, arr, from, flag) ==
    IF from > Len(arr) THEN w
    ELSE NotifyEach(Notify(w, arr[from], flag), arr, from + 1, flag)

Computed_notify(w, d, flag) ==
    IF w.flags[d] \cap {NOTIFIED, RUNNING} = {}
    THEN NotifyEach([w EXCEPT !.flags[d] = @ \cup {flag, NOTIFIED}],
                    w.dependants[d], 1, MAYBE_DIRTY)
    ELSE w

\* the record of a notification that reached n while n was running and
\* left world r: v is 1 if it changed the flags of n, want is 1 if it changed
\* the batch queue
NoteRunning(w, r, n, flag) ==
    IF RUNNING \in w.flags[n]
    THEN Logged(r, "renotified", n, flag,
                IF r.flags[n] = w.flags[n] THEN 0 ELSE 1,
                IF /\ r.batched_effect = w.batched_effect
                   /\ r.next_batched_effect = w.next_batched_effect
                THEN 0 ELSE 1)
    ELSE r

\* dep._notify(flag)
Notify(w, n, flag) ==
    NoteRunning(w,
                IF n \in Computeds THEN Computed_notify(w, n, flag)
                ELSE Effect_notify(w, n, flag),
                n, flag)

(***************************************************************************)
(* cleanup_context / prune_context_sources: the end-of-run reconciliation  *)
(* of the running listener's dependencies.                                 *)
(***************************************************************************)
\* a reconciliation that never unsubscribes
prune_context_sources_none(w) == w

prune_context_sources(w) ==
    UnsubscribeEach(w, w.dependencies[w.eval_listener], 1, w.eval_listener)

cleanup_context(w) ==
    LET l == w.eval_listener
        idx == w.eval_sources_index
        new == w.eval_untracked_sources
    IN  IF new # <<>>
        THEN LET w1 == prune_context_sources(w)
                 w2 == [w1 EXCEPT !.dependencies[l] =
                            IF idx > 0 THEN SubSeq(@, 1, idx) \o new ELSE new]
             IN  IF TRACKING \in w2.flags[l]
                 THEN SubscribeEach(w2, w2.dependencies[l], idx + 1, l)
                 ELSE w2
        ELSE IF idx < Len(w.dependencies[l])
        THEN [prune_context_sources(w) EXCEPT
                  !.dependencies[l] = SubSeq(@, 1, idx)]
        ELSE w

(***************************************************************************)
(* Signal.value (get), Signal.peek                                         *)
(***************************************************************************)
Signal_get_value(w, s) ==
    LET l == w.eval_listener
        w1 == IF l # None /\ w.context_epoch[l] # w.access_epoch[s]
              THEN LET wa == [w EXCEPT !.access_epoch[s] = w.context_epoch[l]]
                   IN  IF wa.eval_untracked_sources # <<>>
                       THEN [wa EXCEPT !.eval_untracked_sources = Append(@, s)]
                       ELSE IF wa.eval_sources_index < Len(wa.dependencies[l])
                               /\ wa.dependencies[l][wa.eval_sources_index + 1] = s
                       THEN [wa EXCEPT !.eval_sources_index = @ + 1]
                       ELSE [wa EXCEPT !.eval_untracked_sources = <<s>>]
              ELSE w
    IN  [w1 EXCEPT !.ret = w1.value[s],
                   !.reads = IF l # None THEN [@ EXCEPT ![l] = @ \cup {s}] ELSE @]

Signal_peek(w, s) == [w EXCEPT !.ret = w.value[s]]


(***************************************************************************)
(* What a source is worth by definition: a signal its stored value, a      *)
(* computed its compute function evaluated on the stored values of the     *)
(* signals (the thrown value if it throws).  Used only to record, beside   *)
(* each read in the log, the value a consistent read would have returned.  *)
(***************************************************************************)
RECURSIVE IdealExec(_, _, _), IdealOf(_, _)

IdealExec(prog, vals, st) ==
    IF prog = <<>> \/ st.exc THEN st
    ELSE LET ins == Head(prog)
             rest == Tail(prog)
         IN  CASE ins.op \in {"get", "peek"} ->
                    LET r == IdealOf(ins.n, vals)
                    IN  IF r.exc THEN r
                        ELSE IdealExec(rest, vals, [st EXCEPT !.acc = @ + r.acc])
               [] ins.op = "if" ->
                    LET r == IdealOf(ins.n, vals)
                    IN  IF r.exc THEN r
                        ELSE IdealExec(rest, vals,
                                 IdealExec(IF r.acc # 0 THEN ins.then ELSE ins.else,
                                           vals, st))
               [] ins.op = "untrack" ->
                    IdealExec(rest, vals, IdealExec(ins.body, vals, st))
               [] ins.op = "try" ->
                    IdealExec(rest, vals,
                              [IdealExec(ins.body, vals, st) EXCEPT !.exc = FALSE])
               [] ins.op = "sign" ->
                    IdealExec(rest, vals,
                              [st EXCEPT !.acc = IF @ > 0 THEN 1 ELSE 0])
               [] ins.op = "throw" -> [st EXCEPT !.exc = TRUE, !.err = ins.err]
               [] OTHER -> IdealExec(rest, vals, st)

IdealOf(n, vals) ==
    IF n \in Signals THEN [acc |-> vals[n], exc |-> FALSE, err |-> 0]
    ELSE IdealExec(Body(n), vals, [acc |-> 0, exc |-> FALSE, err |-> 0])

IdealValue(n, vals) ==
    LET r == IdealOf(n, vals) IN IF r.exc THEN r.err ELSE r.acc

\* a write that does not compare the new value with the stored one
ValueChanged_always(w, s, next) == TRUE

\* Signal.set value: this._value !== next
ValueChanged(w, s, next) == w.value[s] # next

\* a catch block that keeps the last error of a drain
RememberError_last(has_error, error, exc, err) == IF exc THEN err ELSE error

\* end_batch: the catch block keeps the first error of a drain
RememberError(has_error, error, exc, err) ==
    IF ~has_error /\ exc THEN err ELSE error

(***************************************************************************)
(* The engine proper.  The functions below call one another as the         *)
(* functions of the source do; every such call goes through Call, which    *)
(* names the function called and passes the world and the arguments.  A    *)
(* function that returns a boolean leaves it in w.res, one that returns a  *)
(* value leaves it in w.ret.  try/finally: the finalizer runs on the world *)
(* with exc cleared; if it throws, its exception replaces the pending one, *)
(* otherwise the pending one is restored.                                  *)
(***************************************************************************)
RECURSIVE Call(_, _, _)

Result(w, b) == [w EXCEPT !.res = b]

\* the end of a finally block that ended in world f while the exception
\* exc, err of the try block was pending
Finally(f, exc, err) ==
    IF f.exc THEN f ELSE [f EXCEPT !.exc = exc, !.err = err]

\* a staleness check that always answers "stale"
is_stale_always(w, target, fl) == Result(w, TRUE)

is_stale(w, target, fl) ==
    IF DIRTY \in fl THEN Result(w, TRUE)
    ELSE IF MAYBE_DIRTY \in fl
    THEN Call("is_stale_loop", w, <<target, 1, Len(w.dependencies[target])>>)
    ELSE Result(w, FALSE)

\* the loop of is_stale, from dependencies[i - 1] on
\* the loop of is_stale after source._refresh() left world r
is_stale_next(r, target, i, ilen) ==
    IF r.res THEN r ELSE Call("is_stale_loop", r, <<target, i + 1, ilen>>)

is_stale_loop(w, target, i, ilen) ==
    IF i > ilen THEN Result(w, FALSE)
    ELSE LET source == w.dependencies[target][i]
         IN  IF w.epoch[source] > w.epoch[target] THEN Result(w, TRUE)
             ELSE is_stale_next(Call("refresh", w, <<source>>),
                                target, i, ilen)

\* source._refresh(): Signal._refresh returns false
Signal_refresh(w, source) == Result(w, FALSE)

\* the finally block of Computed._refresh and its return: w3 is the world
\* before the call of the compute function, w5 the world the try and catch
\* blocks left
Computed_refresh_finally(w3, w5, d, stale) ==
    Result([cleanup_context(w5) EXCEPT
                !.eval_listener = w3.eval_listener,
                !.eval_untracked_sources = w3.eval_untracked_sources,
                !.eval_sources_index = w3.eval_sources_index,
                !.flags[d] = @ \ {RUNNING}],
           stale)

\* Computed._refresh from the return of the compute function on: w3 is
\* the world before the call, r0 the world it left
Computed_refresh_end(w3, r0, d, fl) ==
    IF r0.exc
    THEN \* catch
         Computed_refresh_finally(w3,
             [Logged(r0, "failed", d, d, r0.err, 0) EXCEPT
                  !.stamp[d] = r0.write_clock,
                  !.exc = FALSE,
                  !.value[d] = r0.err,
                  !.flags[d] = @ \cup {HAS_ERROR},
                  !.write_clock = @ + 1,
                  !.epoch[d] = r0.write_clock + 1,
                  !.realm_write_epoch[d] = r0.write_clock + 1],
             d, TRUE)
    ELSE IF HAS_ERROR \in fl \/ w3.value[d] # r0.ret \/ r0.epoch[d] = -1
    THEN Computed_refresh_finally(w3,
             [Logged(r0, "computed", d, d, r0.ret, 0) EXCEPT
                  !.stamp[d] = r0.write_clock,
                  !.value[d] = r0.ret,
                  !.flags[d] = @ \ {HAS_ERROR},
                  !.write_clock = @ + 1,
                  !.epoch[d] = r0.write_clock + 1,
                  !.realm_write_epoch[d] = r0.write_clock + 1],
             d, TRUE)
    ELSE Computed_refresh_finally(w3,
             [Logged(r0, "computed", d, d, r0.ret, 0) EXCEPT
                  !.stamp[d] = r0.write_clock],
             d, FALSE)

\* Computed._refresh from the staleness check on: w3 is the world the
\* check left, with its answer in w3.res
Computed_refresh_run(w3, d, fl) ==
    IF ~w3.res
    THEN Result([w3 EXCEPT !.flags[d] = @ \ {RUNNING}], FALSE)
    ELSE
    LET w4 == [w3 EXCEPT !.context_epoch[d] = w3.read_clock,
                         !.read_clock = @ + 1,
                         !.eval_listener = d,
                         !.eval_untracked_sources = <<>>,
                         !.eval_sources_index = 0,
                         !.reads[d] = {},
                         !.computes[d] = @ + 1]
    IN  Computed_refresh_end(w3,
            Call("callback", Logged(w4, "compute", d, d, 0, 0), <<Body(d), d>>),
            d, fl)

Computed_refresh(w, d) ==
    LET fl == w.flags[d] \ {NOTIFIED}
        w1 == [w EXCEPT !.flags[d] = fl]
    IN  IF \/ w1.realm_write_epoch[d] = w1.write_clock
           \/ fl \cap {TRACKING, DIRTY, MAYBE_DIRTY} = {TRACKING}
           \/ RUNNING \in fl
        THEN Result(w1, FALSE)
        ELSE
        LET w2 == [w1 EXCEPT !.flags[d] = (fl \ {DIRTY, MAYBE_DIRTY}) \cup {RUNNING},
                             !.realm_write_epoch[d] = w1.write_clock]
        IN  Computed_refresh_run(
                IF w2.epoch[d] > -1 THEN Call("is_stale", w2, <<d, fl>>)
                ELSE Result(w2, TRUE),
                d, fl)

\* a read that hands out the cached value whatever the flags say
Computed_throws_never(w, d) == FALSE

\* Computed.peek / get value: this._flags & Flags.HAS_ERROR
Computed_throws(w, d) == HAS_ERROR \in w.flags[d]

\* Computed.peek after this._refresh() left world r0
Computed_peek_end(r0, d) ==
    LET r == NoteRead(r0, d, r0.value[d])
    IN  IF Computed_throws(r, d) THEN Throw(r, r.value[d])
        ELSE [r EXCEPT !.ret = r.value[d]]

Computed_peek(w, d) == Computed_peek_end(Call("refresh", w, <<d>>), d)

\* Computed get value after this._refresh() left world r
Computed_get_value_end(r, d) ==
    LET g == NoteRead(Signal_get_value(r, d), d, r.value[d])
    IN  IF Computed_throws(r, d) THEN Throw(g, g.ret) ELSE g

Computed_get_value(w, d) ==
    Computed_get_value_end(Call("refresh", w, <<d>>), d)

\* a cycle guard that lets one more wave through
CycleGuard_late(w) == w.batch_iteration <= MaxBatchIteration

\* Signal.set value: batch_iteration < 100
CycleGuard(w) == w.batch_iteration < MaxBatchIteration

Signal_set_value(w, s, next) ==
    IF ValueChanged(w, s, next)
    THEN LET w1 == [Logged(w, "write", s, s, next, w.batch_iteration) EXCEPT
                             !.write_clock = @ + 1,
                             !.epoch[s] = w.write_clock + 1,
                             !.value[s] = next,
                             !.computes = [d \in Computeds |-> 0],
                             !.first_read = [d \in Computeds |-> -1]]
         IN  IF CycleGuard(w1)
             THEN Call("end_batch",
                       NotifyEach(start_batch(w1), w1.dependants[s], 1, DIRTY),
                       <<>>)
             ELSE w1
    ELSE w

\* The inner loop of end_batch, over the linked list that starts at effect.
\* The locals has_error and error of end_batch live in w.has_error, w.error.
\* the catch block of end_batch and the step to the next effect of the
\* list, r being the world effect._refresh() left or the one before it
drain_next(w, r, next) ==
    IF r.exc
    THEN Call("drain_wave",
              [r EXCEPT !.exc = FALSE,
                        !.has_error = TRUE,
                        !.error = RememberError(w.has_error, w.error,
                                                TRUE, r.err)],
              <<next>>)
    ELSE Call("drain_wave",
              [r EXCEPT !.has_error = w.has_error, !.error = w.error],
              <<next>>)

\* the body of the inner loop after the test of DISPOSED and is_stale,
\* whose answer is in st.res
drain_refresh(w, st, effect, next) ==
    drain_next(w,
               IF st.res THEN Call("Effect_refresh", st, <<effect>>) ELSE st,
               next)

drain_wave(w, effect) ==
    IF effect = None THEN w
    ELSE LET next == w.next_batched_effect[effect]
             fl == w.flags[effect] \ {NOTIFIED}
             w1 == [w EXCEPT !.flags[effect] = fl,
                             !.next_batched_effect[effect] = None]
         IN  drain_refresh(w,
                           IF DISPOSED \in fl THEN Result(w1, FALSE)
                           ELSE Call("is_stale", w1, <<effect, fl>>),
                           effect, next)

\* one turn of the outer loop of end_batch
wave(w) ==
    Call("drain_wave",
         [Logged(w, "wave", None, None, w.batch_iteration + 1, 0) EXCEPT
              !.batched_effect = None, !.batch_iteration = @ + 1],
         <<w.batched_effect>>)

\* the outer loop of end_batch, for at most n turns; the turns are taken
\* in blocks, a small block first, so that the evaluation of the early
\* turns nests least and that of a late turn little
drain_upto(w, n) ==
    IF w.batched_effect = None \/ n = 0 THEN w
    ELSE IF n = 1 THEN Call("wave", w, <<>>)
    ELSE LET h == IF n > 8 THEN n \div 8 ELSE 1
         IN  Call("drain_upto", Call("drain_upto", w, <<h>>), <<n - h>>)

\* the outer loop of end_batch; a loop that is not over after MaxWaves
\* turns is recorded as one that does not end
\* the world r in which the model stopped following the outer loop
drain_end(r) ==
    IF r.batched_effect = None THEN r ELSE [r EXCEPT !.endless = TRUE]

drain(w) == drain_end(Call("drain_upto", w, <<MaxWaves>>))

\* end_batch after the loops, which left world r
end_batch_end(w, r) ==
    LET w1 == [r EXCEPT !.batch_iteration = 0, !.batch_depth = @ - 1,
                        !.has_error = w.has_error, !.error = w.error]
    IN  IF r.has_error THEN Throw(w1, r.error) ELSE w1

end_batch(w) ==
    IF w.batch_depth > 1 THEN [w EXCEPT !.batch_depth = @ - 1]
    ELSE end_batch_end(w, Call("drain", [w EXCEPT !.has_error = FALSE,
                                                  !.error = 0], <<>>))

\* the finally block of Effect._refresh from the test of DISPOSED on, w5
\* being the world dispose_effect left or the one before it; exc, err is
\* the exception of the body
Effect_refresh_end(w5, exc, err) ==
    Finally(IF w5.exc THEN w5 ELSE Call("end_batch", w5, <<>>), exc, err)

\* the finally block of Effect._refresh: w is the world at the call of
\* _refresh, w2 the world the try block left with its exception cleared;
\* exc, err is that exception
Effect_refresh_finally(w, e, w2, exc, err) ==
    LET w3 == cleanup_context(w2)
        w4 == [w3 EXCEPT !.eval_listener = w.eval_listener,
                         !.eval_untracked_sources = w.eval_untracked_sources,
                         !.eval_sources_index = w.eval_sources_index,
                         !.flags[e] = @ \ {RUNNING}]
    IN  Effect_refresh_end(IF DISPOSED \in w4.flags[e]
                           THEN Call("dispose_effect", w4, <<e, TRUE>>)
                           ELSE w4,
                           exc, err)

\* Effect._refresh from the return of the body on: w is the world at the
\* call of _refresh, r0 the world the body left
Effect_refresh_try(w, e, r0) ==
    IF r0.exc
    THEN Effect_refresh_finally(w, e,
             [Logged(r0, "threw", e, e, r0.err, 0) EXCEPT
                  !.stamp[e] = r0.write_clock, !.exc = FALSE],
             TRUE, r0.err)
    ELSE Effect_refresh_finally(w, e,
             [r0 EXCEPT !.stamp[e] = r0.write_clock, !.value[e] = r0.ret],
             FALSE, r0.err)

Effect_refresh(w, e) ==
    LET fl == w.flags[e]
    IN  IF RUNNING \in fl THEN w
        ELSE
        LET w1 == [start_batch(w) EXCEPT
                       !.eval_listener = e,
                       !.eval_untracked_sources = <<>>,
                       !.eval_sources_index = 0,
                       !.epoch[e] = w.write_clock,
                       !.context_epoch[e] = w.read_clock,
                       !.read_clock = @ + 1,
                       !.flags[e] = (fl \ {DIRTY, MAYBE_DIRTY}) \cup {RUNNING},
                       !.reads[e] = {}]
        IN  Effect_refresh_try(w, e,
                Call("callback", Logged(w1, "run", e, e, 0, 0), <<Body(e), e>>))

\* the loop of cleanup_effect after cleanup function fns[i - 1] left
\* world r
run_cleanups_next(r, e, fns, i) ==
    IF r.exc THEN Logged(r, "cfailed", fns[i], e, r.err, 0)
    ELSE Call("run_cleanups", r, <<e, fns, i + 1>>)

\* a loop that goes on to the next cleanup function after one has thrown,
\* and throws the first error at its end
run_cleanups_on(r, e, fns, i) ==
    Finally(Call("run_cleanups",
                 IF r.exc
                 THEN [Logged(r, "cfailed", fns[i], e, r.err, 0) EXCEPT
                           !.exc = FALSE]
                 ELSE r,
                 <<e, fns, i + 1>>),
            r.exc, r.err)

\* a loop that goes on to the next cleanup function after one has thrown
run_cleanups_all(w, e, fns, i) ==
    IF i > Len(fns) THEN w
    ELSE run_cleanups_on(Call("callback", Logged(w, "cleanup", fns[i], e, 0, 0),
                              <<CleanupBody(fns[i]), fns[i]>>),
                         e, fns, i)

\* the loop of cleanup_effect, from cleanups[i - 1] on
run_cleanups(w, e, fns, i) ==
    IF i > Len(fns) THEN w
    ELSE run_cleanups_next(Call("callback", Logged(w, "cleanup", fns[i], e, 0, 0),
                                <<CleanupBody(fns[i]), fns[i]>>),
                           e, fns, i)

\* the finally block of cleanup_effect, c being the world the try and
\* catch blocks left
cleanup_effect_finally(w, e, c) ==
    Finally(Call("end_batch",
                 [c EXCEPT !.exc = FALSE,
                           !.cleanups[e] = <<>>,
                           !.eval_listener = w.eval_listener],
                 <<>>),
            c.exc, c.err)

\* the catch block of cleanup_effect, r being the world the loop left
cleanup_effect_catch(w, e, r) ==
    IF r.exc
    THEN cleanup_effect_finally(w, e,
             Throw(Call("dispose_effect",
                        [r EXCEPT !.exc = FALSE,
                                  !.flags[e] = (@ \ {RUNNING}) \cup {DISPOSED}],
                        <<e, FALSE>>),
                   r.err))
    ELSE cleanup_effect_finally(w, e, r)

cleanup_effect(w, e) ==
    IF Len(w.cleanups[e]) > 0
    THEN LET w1 == [start_batch(w) EXCEPT !.eval_listener = None]
         IN  cleanup_effect_catch(w, e,
                 Call("run_cleanups", w1, <<e, w1.cleanups[e], 1>>))
    ELSE w

dispose_effect(w, e, run_cleanup) ==
    LET w1 == [UnsubscribeEach(w, w.dependencies[e], 1, e) EXCEPT
                   !.dependencies[e] = <<>>]
    IN  IF run_cleanup THEN Call("cleanup_effect", w1, <<e>>) ELSE w1

Effect_dispose(w, e) ==
    LET w1 == [w EXCEPT !.flags[e] = @ \cup {DISPOSED}]
    IN  IF RUNNING \notin w1.flags[e]
        THEN Call("dispose_effect", w1, <<e, TRUE>>)
        ELSE w1

\* cleanup(fn), throws = true
cleanup(w, fn) ==
    IF w.eval_listener \in Effects
    THEN [Logged(w, "register", fn, w.eval_listener, 0, 0) EXCEPT
              !.cleanups[w.eval_listener] = Append(@, fn)]
    ELSE Throw(w, CleanupOutsideEffect)

\* an untrack that leaves the current listener in place
untrack_tracked(w, body, self) == Call("exec", w, <<body, self>>)

untrack(w, body, self) ==
    IF w.eval_listener = None THEN Call("exec", w, <<body, self>>)
    ELSE [Call("exec", [w EXCEPT !.eval_listener = None], <<body, self>>) EXCEPT
              !.eval_listener = w.eval_listener]

\* the finally block of batch, r being the world the callback left
batch_finally(r, self) ==
    Finally(Call("end_batch",
                 [Logged(r, "returned", None, self, 0, 0) EXCEPT !.exc = FALSE],
                 <<>>),
            r.exc, r.err)

batch(w, body, self) ==
    IF w.batch_depth > 0 THEN Call("exec", w, <<body, self>>)
    ELSE batch_finally(Call("exec", start_batch(w), <<body, self>>), self)

\* the rethrow of the catch block of effect(), d being the world
\* _dispose() left
effect_rethrow(d, err) == IF d.exc THEN d ELSE Throw(d, err)

\* the catch block of effect(), r being the world the first run left
effect_catch(r, e) ==
    IF r.exc
    THEN effect_rethrow(Call("Effect_dispose", [r EXCEPT !.exc = FALSE], <<e>>),
                        r.err)
    ELSE r

\* an effect() that lets the error of the first run pass and leaves the
\* effect as it is
effect_undisposed(w, e) == Call("Effect_refresh", w, <<e>>)

\* effect(fn)
effect(w, e) == effect_catch(Call("Effect_refresh", w, <<e>>), e)

(***************************************************************************)
(* The interpreter of client callbacks.  self names whose callback runs;   *)
(* it is used only for the log.                                            *)
(***************************************************************************)
\* the log entry of a read of n that left world r
ReadLogged(r, n, self) ==
    IF r.exc THEN r
    ELSE Logged(r, "read", n, self, r.ret, IdealValue(n, r.value))

\* n.value, read by a callback
ReadValue(w, n, self) ==
    ReadLogged(IF n \in Computeds THEN Call("Computed_get_value", w, <<n>>)
               ELSE Signal_get_value(w, n),
               n, self)

\* n.peek(), called by a callback
ReadPeek(w, n, self) ==
    ReadLogged(IF n \in Computeds THEN Call("Computed_peek", w, <<n>>)
               ELSE Signal_peek(w, n),
               n, self)

\* acc += the value read, which is in r.ret
Accumulate(r) == IF r.exc THEN r ELSE [r EXCEPT !.acc = @ + r.ret]

\* if (n.value) { then } else { else }, the read having left world r
Branch(r, ins, self) ==
    IF r.exc THEN r
    ELSE Call("exec", r, <<IF r.ret # 0 THEN ins.then ELSE ins.else, self>>)

Step(w, ins, self) ==
    CASE ins.op = "get" -> Accumulate(ReadValue(w, ins.n, self))
      [] ins.op = "peek" -> Accumulate(ReadPeek(w, ins.n, self))
      [] ins.op = "if" -> Branch(ReadValue(w, ins.n, self), ins, self)
      [] ins.op = "untrack" -> untrack(w, ins.body, self)
      [] ins.op = "set" -> Call("Signal_set_value", w, <<ins.n, ins.v>>)
      [] ins.op = "cleanup" -> cleanup(w, ins.c)
      [] ins.op = "throw" -> Throw(w, ins.err)
      [] ins.op = "sign" -> [w EXCEPT !.acc = IF @ > 0 THEN 1 ELSE 0]
      [] ins.op = "dispose" -> Call("Effect_dispose", w, <<ins.n>>)
      [] ins.op = "batch" -> batch(w, ins.body, self)
      [] ins.op = "try" ->
           [Call("exec", w, <<ins.body, self>>) EXCEPT !.exc = FALSE]

\* the instructions after the first, which left world r
ExecRest(r, prog, self) ==
    IF r.exc THEN r ELSE Call("exec", r, <<Tail(prog), self>>)

\* run the instructions of prog in order, up to the first that throws
Exec(w, prog, self) ==
    IF prog = <<>> THEN w
    ELSE ExecRest(Step(w, Head(prog), self), prog, self)

\* the return of a function of the client, which left world r
Return(w, r) == [r EXCEPT !.ret = r.acc, !.acc = w.acc, !.depth = w.depth]

\* call a function of the client: it has its own acc, and returns it
RunCallback(w, prog, self) ==
    IF w.depth >= StackLimit THEN Throw(w, StackOverflow)
    ELSE Return(w, Call("exec", [w EXCEPT !.acc = 0, !.depth = @ + 1],
                        <<prog, self>>))

\* f(x...) on world w
Call(f, w, x) ==
    CASE f = "is_stale" -> is_stale(w, x[1], x[2])
      [] f = "is_stale_loop" -> is_stale_loop(w, x[1], x[2], x[3])
      [] f = "refresh" -> IF x[1] \in Computeds THEN Computed_refresh(w, x[1])
                          ELSE Signal_refresh(w, x[1])
      [] f = "Computed_get_value" -> Computed_get_value(w, x[1])
      [] f = "Computed_peek" -> Computed_peek(w, x[1])
      [] f = "Signal_set_value" -> Signal_set_value(w, x[1], x[2])
      [] f = "end_batch" -> end_batch(w)
      [] f = "drain" -> drain(w)
      [] f = "drain_upto" -> drain_upto(w, x[1])
      [] f = "wave" -> wave(w)
      [] f = "drain_wave" -> drain_wave(w, x[1])
      [] f = "Effect_refresh" -> Effect_refresh(w, x[1])
      [] f = "Effect_dispose" -> Effect_dispose(w, x[1])
      [] f = "dispose_effect" -> dispose_effect(w, x[1], x[2])
      [] f = "cleanup_effect" -> cleanup_effect(w, x[1])
      [] f = "run_cleanups" -> run_cleanups(w, x[1], x[2], x[3])
      [] f = "effect" -> effect(w, x[1])
      [] f = "batch" -> batch(w, x[1], x[2])
      [] f = "callback" -> RunCallback(w, x[1], x[2])
      [] f = "exec" -> Exec(w, x[1], x[2])

(***************************************************************************)
(* Initial state: every object as its constructor leaves it.  Signals are  *)
(* signal(0); computeds and effects are given the initial value 0.         *)
(***************************************************************************)
InitEngine ==
    /\ value = [n \in Nodes |-> 0]
    /\ epoch = [n \in Nodes |-> -1]
    /\ access_epoch = [n \in Sources |-> -1]
    /\ dependants = [n \in Sources |-> <<>>]
    /\ dependencies = [n \in Listeners |-> <<>>]
    /\ flags = [n \in Listeners |-> IF n \in Computeds THEN {DIRTY} ELSE {TRACKING}]
    /\ realm_write_epoch = [n \in Computeds |-> -1]
    /\ context_epoch = [n \in Listeners |-> -1]
    /\ cleanups = [n \in Effects |-> <<>>]
    /\ next_batched_effect = [n \in Effects |-> None]
    /\ eval_listener = None
    /\ eval_sources_index = 0
    /\ eval_untracked_sources = <<>>
    /\ batched_effect = None
    /\ batch_depth = 0
    /\ batch_iteration = 0
    /\ write_clock = 0
    /\ read_clock = 0
    /\ reads = [n \in Listeners |-> {}]
    /\ computes = [n \in Computeds |-> 0]
    /\ first_read = [n \in Computeds |-> -1]
    /\ unequal_read = {}
    /\ stamp = [n \in Listeners |-> -1]
    /\ created = {}
    /\ op = [k |-> "init", n |-> None, v |-> 0, old |-> 0, ret |-> 0, cb |-> <<>>]
    /\ log = <<>>
    /\ thrown = 0
    /\ endless = FALSE

Init == InitEngine /\ scenario \in Scenarios

\* the state after a public operation that ended in world r
Commit(r, o) ==
    /\ value' = r.value
    /\ epoch' = r.epoch
    /\ access_epoch' = r.access_epoch
    /\ dependants' = r.dependants
    /\ dependencies' = r.dependencies
    /\ flags' = r.flags
    /\ realm_write_epoch' = r.realm_write_epoch
    /\ context_epoch' = r.context_epoch
    /\ cleanups' = r.cleanups
    /\ next_batched_effect' = r.next_batched_effect
    /\ eval_listener' = r.eval_listener
    /\ eval_sources_index' = r.eval_sources_index
    /\ eval_untracked_sources' = r.eval_untracked_sources
    /\ batched_effect' = r.batched_effect
    /\ batch_depth' = r.batch_depth
    /\ batch_iteration' = r.batch_iteration
    /\ write_clock' = r.write_clock
    /\ read_clock' = r.read_clock
    /\ reads' = r.reads
    /\ computes' = r.computes
    /\ first_read' = r.first_read
    /\ unequal_read' = r.unequal_read
    /\ stamp' = r.stamp
    /\ log' = r.log
    /\ thrown' = IF r.exc THEN r.err ELSE 0
    /\ endless' = r.endless
    /\ op' = [o EXCEPT !.ret = IF r.exc THEN 0 ELSE r.ret]
    /\ scenario' = scenario

\* the environment starts operations only while the clocks are small; a
\* client program whose computeds tick the write clock on every
\* recomputation is given slack on top of the bounds
Slack == Programs[scenario].slack
Bounded == write_clock < MaxWrites + Slack /\ read_clock < MaxRuns + Slack

(***************************************************************************)
(* The public operations.                                                  *)
(***************************************************************************)
\* s.value = v
SetSignal(s, v) ==
    /\ Bounded
    /\ Commit(Call("Signal_set_value", World, <<s, v>>),
              [k |-> "set", n |-> s, v |-> v, old |-> value[s], ret |-> 0, cb |-> <<>>])
    /\ UNCHANGED created

\* d.value, outside of any listener
ReadComputed(d) ==
    /\ Bounded
    /\ Commit(Call("Computed_get_value", World, <<d>>),
              [k |-> "value", n |-> d, v |-> 0, old |-> 0, ret |-> 0, cb |-> <<>>])
    /\ UNCHANGED created

\* d.peek()
PeekComputed(d) ==
    /\ Bounded
    /\ Commit(Call("Computed_peek", World, <<d>>),
              [k |-> "peek", n |-> d, v |-> 0, old |-> 0, ret |-> 0, cb |-> <<>>])
    /\ UNCHANGED created

\* effect(fn): each effect of the scenario is created once
CreateEffect(e) ==
    /\ Bounded
    /\ e \notin created
    /\ created' = created \cup {e}
    /\ Commit(Call("effect", World, <<e>>),
              [k |-> "effect", n |-> e, v |-> 0, old |-> 0, ret |-> 0, cb |-> <<>>])

\* e._dispose()
DisposeEffect(e) ==
    /\ Bounded
    /\ e \in created
    /\ Commit(Call("Effect_dispose", World, <<e>>),
              [k |-> "dispose", n |-> e, v |-> 0, old |-> 0, ret |-> 0, cb |-> <<>>])
    /\ UNCHANGED created

\* batch(cb): a callback disposes only effects that exist
Batch(cb) ==
    /\ Bounded
    /\ \A i \in DOMAIN cb : cb[i].op = "dispose" => cb[i].n \in created
    /\ Commit(Call("batch", World, <<cb, "batch">>),
              [k |-> "batch", n |-> None, v |-> 0, old |-> 0, ret |-> 0, cb |-> cb])
    /\ UNCHANGED created

Next ==
    \/ \E s \in ScenarioSignals, v \in 0..MaxVal : SetSignal(s, v)
    \/ \E d \in ScenarioComputeds : ReadComputed(d)
    \/ \E d \in ScenarioComputeds : PeekComputed(d)
    \/ \E e \in ScenarioEffects : CreateEffect(e)
    \/ \E e \in ScenarioEffects : DisposeEffect(e)
    \/ \E cb \in BatchCallbacks : Batch(cb)

Spec == Init /\ [][Next]_vars
InitDyn == InitEngine /\ scenario = "dyn"
SpecDyn == InitDyn /\ [][Next]_vars
InitLazy == InitEngine /\ scenario = "lazy"
SpecLazy == InitLazy /\ [][Next]_vars
InitUntracked == InitEngine /\ scenario = "untracked"
SpecUntracked == InitUntracked /\ [][Next]_vars
InitFailing == InitEngine /\ scenario = "failing"
SpecFailing == InitFailing /\ [][Next]_vars
InitErring == InitEngine /\ scenario = "erring"
SpecErring == InitErring /\ [][Next]_vars
InitCleaning == InitEngine /\ scenario = "cleaning"
SpecCleaning == InitCleaning /\ [][Next]_vars
InitShedding == InitEngine /\ scenario = "shedding"
SpecShedding == InitShedding /\ [][Next]_vars
InitSteady == InitEngine /\ scenario = "steady"
SpecSteady == InitSteady /\ [][Next]_vars
InitWaves == InitEngine /\ scenario = "waves"
SpecWaves == InitWaves /\ [][Next]_vars
InitCycle == InitEngine /\ scenario = "cycle"
SpecCycle == InitCycle /\ [][Next]_vars
InitReentrant == InitEngine /\ scenario = "reentrant"
SpecReentrant == InitReentrant /\ [][Next]_vars
InitQuitting == InitEngine /\ scenario = "quitting"
SpecQuitting == InitQuitting /\ [][Next]_vars

(***************************************************************************)
(* Properties.  They are stated over the log of the last public operation  *)
(* and, where a property relates an operation to the state it started in,  *)
(* as properties of a step (unprimed: before the operation, primed: after).*)
(***************************************************************************)
Range(arr) == {arr[i] : i \in DOMAIN arr}

\* the positions in log lg of the events of kind k about n
Positions(lg, k, n) == {i \in DOMAIN lg : lg[i].k = k /\ lg[i].n = n}

\* how often the body of effect e started during the operation logged in lg
RunCount(lg, e) == Cardinality(Positions(lg, "run", e))

\* a value-changing write to signal s happened during the step
Written(s) == epoch'[s] > epoch[s]

\* effect e exists and is live before the step
Live(e) == e \in created /\ DISPOSED \notin flags[e]

\* C1: if the latest run of a live effect e read signal s by a tracked
\* read, then a write that changes s (a plain write or one inside a batch)
\* runs the body of e again before the operation ends.
C1_RerunAfterWrite ==
    [][\A e \in Effects, s \in Signals :
           (/\ op'.k \in {"set", "batch"}
            /\ Live(e)
            /\ s \in reads[e]
            /\ Written(s))
           => RunCount(log', e) >= 1]_vars

\* C2: a computed d without dependants that has been computed before: the
\* write that changes a signal d read does not run d's compute function,
\* and the read of d that follows runs it exactly once and returns what the
\* compute function yields on the current values.
C2_LazyRecompute ==
    [][\A d \in Computeds :
           (/\ op.k = "set" /\ op.old # op.v /\ op.n \in reads[d]
            /\ dependants[d] = <<>> /\ epoch[d] > -1
            /\ op'.k \in {"value", "peek"} /\ op'.n = d)
           => /\ Positions(log, "compute", d) = {}
              /\ Cardinality(Positions(log', "compute", d)) = 1
              /\ thrown' = 0
              /\ op'.ret = IdealValue(d, value')]_vars

\* the instructions of batch callback cb that write signal s
WritesIn(cb, s) == {i \in DOMAIN cb : cb[i].op = "set" /\ cb[i].n = s}

\* C3: during batch(cb) no effect body starts before cb has returned, and a
\* live effect whose latest run read two signals that cb changes, or a
\* signal that cb writes several times and changes, runs exactly once, after
\* cb returned, and reads the final value of every signal it reads.
C3_BatchCoalesces ==
    [][op'.k = "batch" =>
           /\ \A i, j \in DOMAIN log' :
                  (log'[i].k = "run" /\ log'[j].k = "returned") => j < i
           /\ \A e \in Effects :
                  (/\ Live(e)
                   /\ \/ Cardinality({s \in reads[e] \cap Signals : Written(s)}) >= 2
                      \/ \E s \in reads[e] \cap Signals :
                             Written(s) /\ Cardinality(WritesIn(op'.cb, s)) >= 2)
                  => /\ RunCount(log', e) = 1
                     /\ \A i \in DOMAIN log' :
                            (log'[i].k = "read" /\ log'[i].by = e
                                /\ log'[i].n \in Signals)
                            => log'[i].v = value'[log'[i].n]]_vars

\* C4: when an effect that registered cleanup functions in its latest run
\* runs again, those functions are called, in registration order, before
\* the body starts.
C4_CleanupBeforeRerun ==
    [][\A e \in Effects :
           (Live(e) /\ cleanups[e] # <<>> /\ RunCount(log', e) >= 1)
           => \E f \in [DOMAIN cleanups[e] -> DOMAIN log'] :
                  /\ \A i \in DOMAIN cleanups[e] :
                         /\ log'[f[i]].k = "cleanup"
                         /\ log'[f[i]].n = cleanups[e][i]
                         /\ \A r \in Positions(log', "run", e) : f[i] < r
                  /\ \A i, j \in DOMAIN cleanups[e] : i < j => f[i] < f[j]]_vars

\* C5: writing to a signal the value it already holds changes nothing in
\* the engine (clocks, epochs, values, flags, queue) and runs no callback;
\* and an operation other than effect() during which no signal is written a
\* different value runs no effect body.
C5_SameValueWriteIsNoOp ==
    [][/\ (op'.k = "set" /\ op'.v = value[op'.n])
           => (UNCHANGED engine /\ log' = <<>> /\ thrown' = 0)
       /\ (op'.k # "effect" /\ \A s \in Signals : ~Written(s))
           => \A e \in Effects : RunCount(log', e) = 0]_vars

\* C5: a signal with dependants was written the value it held
C5_Witness ==
    /\ op.k = "set" /\ op.old = op.v
    /\ dependants[op.n] # <<>>
    /\ created # {}
    /\ write_clock > 0

\* C6: whenever an effect body reads a computed, it gets what the compute
\* function yields on the current values of the signals.
C6_GlitchFreeReads ==
    \A i \in DOMAIN log :
        (log[i].k = "read" /\ log[i].by \in Effects /\ log[i].n \in Computeds)
        => log[i].v = log[i].want

\* C7: the reads of a computed since the last value-changing signal write
\* all gave the same result, and its compute function ran at most once
\* since that write.
C7_ComputedPurity ==
    /\ unequal_read = {}
    /\ \A d \in Computeds : computes[d] <= 1

\* C7: d1 was read again after both computeds had been computed since the
\* last write, and this read did not compute it
C7_Witness ==
    /\ op.k \in {"value", "peek"} /\ op.n = "d1"
    /\ Positions(log, "compute", "d1") = {}
    /\ computes["d1"] = 1 /\ computes["d2"] = 1
    /\ epoch["d2"] > epoch["d1"]
    /\ first_read["d1"] # -1

\* the sources the callback prog reads by .value while the listener is in
\* place (want = TRUE) or inside untrack (want = FALSE); tracked says which
\* of the two holds where prog starts
RECURSIVE SourcesRead(_, _, _)
SourcesRead(prog, tracked, want) ==
    IF prog = <<>> THEN {}
    ELSE LET ins == Head(prog)
             here == CASE ins.op = "get" -> IF tracked = want THEN {ins.n} ELSE {}
                       [] ins.op = "if" ->
                            (IF tracked = want THEN {ins.n} ELSE {})
                                \cup SourcesRead(ins.then, tracked, want)
                                \cup SourcesRead(ins.else, tracked, want)
                       [] ins.op = "untrack" -> SourcesRead(ins.body, FALSE, want)
                       [] ins.op \in {"try", "batch"} ->
                            SourcesRead(ins.body, tracked, want)
                       [] OTHER -> {}
         IN  here \cup SourcesRead(Tail(prog), tracked, want)

\* the sources the callback of listener l reads only inside untrack
UntrackedOnly(l) ==
    IF l \in DOMAIN Programs[scenario].body
    THEN SourcesRead(Body(l), TRUE, FALSE) \ SourcesRead(Body(l), TRUE, TRUE)
    ELSE {}

\* C8: a source that a listener reads only inside untrack is never among
\* its dependencies, nor the listener among its dependants; such a read
\* happens with no current listener, and every other read of the callback,
\* also after an untrack that threw, happens with the listener in place;
\* and writing a signal that an effect reads only inside untrack does not
\* run the effect.
C8_UntrackCorrect ==
    [][/\ \A l \in Listeners : \A s \in UntrackedOnly(l) :
              /\ s \notin Range(dependencies'[l])
              /\ l \notin Range(dependants'[s])
       /\ \A i \in DOMAIN log' :
              (log'[i].k = "read" /\ log'[i].by \in Listeners)
              => log'[i].l = IF log'[i].n \in UntrackedOnly(log'[i].by)
                             THEN None ELSE log'[i].by
       /\ \A e \in Effects :
              (op'.k = "set" /\ op'.n \in UntrackedOnly(e) /\ Written(op'.n))
              => RunCount(log', e) = 0]_vars

\* C8: e1 ran with b truthy, so its untrack callback threw, and it went on
\* to read c as the current listener; b was written afterwards
C8_Witness ==
    /\ op.k = "set" /\ op.n = "b" /\ op.old # op.v
    /\ "e1" \in created /\ DISPOSED \notin flags["e1"]
    /\ "c" \in reads["e1"] /\ "e1" \in Range(dependants["c"])
    /\ RunCount(log, "e1") = 0
    /\ epoch["e1"] > 0

\* the sources that the latest runs of the listeners in ns read, and those
\* that the computeds among them read in turn
RECURSIVE ReadsClosure(_, _)
ReadsClosure(ns, seen) ==
    LET new == UNION {reads[n] : n \in ns \cap Listeners} \ seen
    IN  IF new = {} THEN seen ELSE ReadsClosure(new, seen \cup new)

\* C9: a signal that the latest run of an effect did not read is not among
\* the effect's dependencies and the effect is not among its dependants;
\* and writing a signal that the effect read neither itself nor through the
\* computeds it read does not run the effect.
C9_MinimalDeps ==
    [][\A e \in Effects, x \in Signals :
           /\ (e \in created' /\ x \notin reads'[e])
                  => /\ x \notin Range(dependencies'[e])
                     /\ e \notin Range(dependants'[x])
           /\ (e \in created /\ x \notin ReadsClosure({e}, {})
                   /\ op'.k = "set" /\ op'.n = x /\ Written(x))
                  => RunCount(log', e) = 0]_vars

\* C9: e1 is the only listener that ever ran, it read a in an earlier run
\* but not in its latest one, and a was then written without e1 running
C9_Witness ==
    /\ created = {"e1"} /\ DISPOSED \notin flags["e1"]
    /\ epoch["d1"] = -1
    /\ access_epoch["a"] > -1
    /\ "a" \notin reads["e1"]
    /\ op.k = "set" /\ op.n = "a" /\ op.old # op.v
    /\ RunCount(log, "e1") = 0

\* the value of the first "threw" event of lg, 0 if there is none
FirstThrown(lg) ==
    IF \E i \in DOMAIN lg : lg[i].k = "threw"
    THEN lg[CHOOSE i \in DOMAIN lg :
                /\ lg[i].k = "threw"
                /\ \A j \in 1..(i - 1) : lg[j].k # "threw"].v
    ELSE 0

\* C10: a write or a batch drains the whole queue although effect bodies
\* throw: every effect that was queued as DIRTY and is not disposed runs
\* after it was queued, the queue is empty at the end, and the operation
\* throws the value the first failing body threw (nothing if none threw).
C10_DrainContinuesAfterError ==
    [][op'.k \in {"set", "batch"} =>
           /\ batched_effect' = None
           /\ \A i \in DOMAIN log' :
                  (log'[i].k = "queue" /\ log'[i].by = DIRTY
                       /\ DISPOSED \notin flags'[log'[i].n])
                  => \E j \in DOMAIN log' :
                         j > i /\ log'[j].k = "run" /\ log'[j].n = log'[i].n
           /\ thrown' = FirstThrown(log')]_vars

\* C10: two bodies threw different values in one drain, a third effect ran
\* after them, and the operation threw the first of the two values
C10_Witness ==
    \E i, j, k \in DOMAIN log :
        /\ i < j /\ j < k
        /\ log[i].k = "threw" /\ log[j].k = "threw" /\ log[i].v # log[j].v
        /\ log[k].k = "run"
        /\ thrown = log[i].v

\* the signals among the sources of computed d, directly or through the
\* computeds it read, have not been written since d was last computed
SourcesUnchangedSince(d) ==
    \A x \in ReadsClosure({d}, {}) \cap Signals : epoch[x] < epoch[d]

\* the position in lg of the last return or throw of d's compute function
LastOutcome(lg, d) ==
    CHOOSE i \in DOMAIN lg :
        /\ lg[i].k \in {"computed", "failed"} /\ lg[i].n = d
        /\ \A j \in DOMAIN lg :
               (lg[j].k \in {"computed", "failed"} /\ lg[j].n = d) => j <= i

\* C11: when the compute function of a computed throws, the thrown value is
\* stored and HAS_ERROR is set; while its sources are unchanged a read
\* (value or peek) throws that value and runs no compute function; a step
\* in which HAS_ERROR is cleared ran the compute function to a normal
\* return, stored what it returned, stamped a new epoch, and ran every live
\* effect subscribed to the computed.
C11_ErrorCached ==
    [][\A d \in Computeds :
           /\ Positions(log', "compute", d) # {}
                  => LET o == log'[LastOutcome(log', d)]
                     IN  /\ (HAS_ERROR \in flags'[d]) = (o.k = "failed")
                         /\ value'[d] = o.v
           /\ (/\ op'.k \in {"value", "peek"} /\ op'.n = d
               /\ HAS_ERROR \in flags[d] /\ SourcesUnchangedSince(d))
                  => /\ thrown' = value[d]
                     /\ log' = <<>>
                     /\ value'[d] = value[d] /\ HAS_ERROR \in flags'[d]
           /\ (HAS_ERROR \in flags[d] /\ HAS_ERROR \notin flags'[d])
                  => /\ Positions(log', "computed", d) # {}
                     /\ epoch'[d] > epoch[d]
                     /\ \A e \in Effects :
                            (Live(e) /\ e \in Range(dependants[d]))
                            => RunCount(log', e) >= 1]_vars

\* C11: d1, in error and subscribed to by e1, was recomputed after a write,
\* returned the value it held before the error, and e1 ran again
C11_Witness ==
    /\ op.k = "set" /\ op.n = "a" /\ op.v = 0 /\ op.old # 0
    /\ Positions(log, "compute", "d1") # {}
    /\ HAS_ERROR \notin flags["d1"] /\ value["d1"] = 0
    /\ RunCount(log, "e1") = 1
    /\ epoch["d1"] > 3

\* the names (field n) of the events of kind k by effect e among the first
\* upto events of lg, in order
Names(lg, k, e, upto) ==
    LET sel == SelectSeq(SubSeq(lg, 1, upto),
                         LAMBDA ev : ev.k = k /\ ev.by = e)
    IN  [i \in DOMAIN sel |-> sel[i].n]

\* the position of the first "threw" of effect e in lg, 0 if there is none
FirstThrew(lg, e) ==
    IF Positions(lg, "threw", e) = {} THEN 0
    ELSE CHOOSE i \in Positions(lg, "threw", e) :
             \A j \in Positions(lg, "threw", e) : i <= j

\* the body of e threw in the first run of e that lg records
FirstRunThrew(lg, e) ==
    /\ FirstThrew(lg, e) > 0
    /\ Cardinality({i \in Positions(lg, "run", e) : i < FirstThrew(lg, e)}) = 1

\* q is a prefix of p
IsPrefix(q, p) == Len(q) <= Len(p) /\ q = SubSeq(p, 1, Len(q))

PositionsBy(lg, k, e) == {i \in DOMAIN lg : lg[i].k = k /\ lg[i].by = e}

Queued(e) ==
    \/ batched_effect = e
    \/ \E x \in Effects : next_batched_effect[x] = e
    \/ NOTIFIED \in flags[e]

\* what C14 says of a step, except for how often cleanup functions are
\* called: a disposed effect stays disposed, its body does not run, it is
\* in no dependants list and not on the queue
C14_Retired(e) ==
    /\ (DISPOSED \in flags[e] /\ RUNNING \notin flags[e])
           => /\ DISPOSED \in flags'[e]
              /\ RunCount(log', e) = 0
    /\ DISPOSED \in flags'[e]
           => /\ \A s \in Sources : e \notin Range(dependants'[s])
              /\ ~Queued(e)'

\* C14: once an effect is disposed its body never runs again, also when it
\* was on the batch queue when it was disposed; it is in no dependants list
\* and not on the queue when the operation ends; in the operation that
\* disposes it the cleanup functions it had registered are called at most
\* once each, in order, and all of them unless one throws; and no cleanup
\* function of it is called in any later operation.
C14_DisposedIsFinal ==
    [][\A e \in Effects :
           /\ C14_Retired(e)
           /\ (DISPOSED \notin flags[e] /\ DISPOSED \in flags'[e])
                  => LET registered ==
                             cleanups[e] \o Names(log', "register", e, Len(log'))
                         called == Names(log', "cleanup", e, Len(log'))
                     IN  /\ IsPrefix(called, registered)
                         /\ PositionsBy(log', "cfailed", e) = {}
                                => called = registered
           /\ DISPOSED \in flags[e]
                  => PositionsBy(log', "cleanup", e) = {}]_vars

\* C14 without the count of cleanup calls
C14_RetiredOnly == [][\A e \in Effects : C14_Retired(e)]_vars

RECURSIVE SumLen(_, _)
\* the total length of the arrays f[n], n in ns
SumLen(f, ns) ==
    IF ns = {} THEN 0
    ELSE LET n == CHOOSE x \in ns : TRUE
         IN  Len(f[n]) + SumLen(f, ns \ {n})

\* C15: between operations (no batch open), a listener is among the
\* dependants of a source exactly when the source is among its dependencies
\* and it has TRACKING set; the dependants lists are together as long as
\* the dependency lists of the TRACKING listeners; and a disposed listener
\* is in no dependants list.
C15_SubscriptionTightness ==
    batch_depth = 0 =>
        /\ \A l \in Listeners, s \in Sources :
               l \in Range(dependants[s])
                   <=> (s \in Range(dependencies[l]) /\ TRACKING \in flags[l])
        /\ SumLen(dependants, Sources)
               = SumLen(dependencies, {l \in Listeners : TRACKING \in flags[l]})
        /\ \A l \in Listeners, s \in Sources :
               (TRACKING \notin flags[l] \/ DISPOSED \in flags[l])
                   => l \notin Range(dependants[s])

\* the sources reachable from the live effects along dependencies
RECURSIVE Reachable(_, _)
Reachable(ls, seen) ==
    LET new == UNION {Range(dependencies[l]) : l \in ls \cap Listeners} \ seen
    IN  IF new = {} THEN seen ELSE Reachable(new, seen \cup new)

LiveEffects == {e \in created : DISPOSED \notin flags[e]}

\* how many effect bodies started during the operation logged in lg
Runs(lg) == Cardinality({i \in DOMAIN lg : lg[i].k = "run"})

\* C16: a computed has TRACKING exactly when it has dependants; when it
\* gets its first dependant in an operation that runs one effect body, it
\* ends up among the dependants of every one of its dependencies; when it
\* loses its last dependant it ends up without TRACKING and in no
\* dependants list; and a computed that no live effect reaches along
\* dependencies is in no dependants list.
C16_TrackingFollowsDependants ==
    [][\A d \in Computeds :
           /\ (TRACKING \in flags'[d]) <=> (dependants'[d] # <<>>)
           /\ (dependants[d] = <<>> /\ dependants'[d] # <<>> /\ Runs(log') = 1)
                  => \A s \in Range(dependencies'[d]) : d \in Range(dependants'[s])
           /\ (dependants[d] # <<>> /\ dependants'[d] = <<>>)
                  => /\ TRACKING \notin flags'[d]
                     /\ \A s \in Sources : d \notin Range(dependants'[s])
           /\ d \notin (Reachable(LiveEffects, {}))'
                  => \A s \in Sources : d \notin Range(dependants'[s])]_vars

\* e1 stopped reading d1 when a was written 0; d1 lost its last
\* dependant and b has no dependants any more
C16_StopsReading ==
    /\ op.k = "set" /\ op.n = "a" /\ op.v = 0 /\ op.old # 0
    /\ RunCount(log, "e1") = 1
    /\ dependencies["d1"] = <<"b">>
    /\ TRACKING \notin flags["d1"]
    /\ dependants["b"] = <<>> /\ dependants["d1"] = <<>>
    /\ dependencies["e1"] = <<"a">>

\* C16: e2, the only effect, was disposed: d2 lost its last dependant, d1 lost
\* d2 in turn, and b has no dependants any more
C16_Witness ==
    /\ op.k = "dispose" /\ op.n = "e2"
    /\ dependencies["d2"] = <<"d1">> /\ dependencies["d1"] = <<"b">>
    /\ TRACKING \notin flags["d2"] /\ TRACKING \notin flags["d1"]
    /\ dependants["d2"] = <<>> /\ dependants["d1"] = <<>>
    /\ dependants["b"] = <<>>

\* the function of listener l started during the operation logged in lg
Invoked(lg, l) ==
    Positions(lg, "run", l) \cup Positions(lg, "compute", l) # {}

\* C17: a computed is recomputed and an effect is re-run only if one of the
\* sources its previous run read has changed value (its epoch has moved)
\* since that run ended; a listener that is notified while none of them has
\* is not invoked.
C17_NoChangeNoRun ==
    [][\A l \in Listeners :
           (stamp[l] > -1 /\ Invoked(log', l))
           => \E s \in reads[l] : epoch'[s] > stamp[l]]_vars

\* array arr holds no element twice
NoDuplicates(arr) ==
    \A i, j \in DOMAIN arr : arr[i] = arr[j] => i = j

\* C18: no listener has a source twice among its dependencies and no source
\* has a listener twice among its dependants.
C18_NoDuplicates ==
    /\ \A l \in Listeners : NoDuplicates(dependencies[l])
    /\ \A s \in Sources : NoDuplicates(dependants[s])

\* the position of the last "wave" event of lg before position i, 0 if none
WaveOf(lg, i) ==
    LET ws == {m \in 1..(i - 1) : lg[m].k = "wave"}
    IN  IF ws = {} THEN 0 ELSE CHOOSE m \in ws : \A x \in ws : x <= m

\* the position of the last "queue" event of effect e in lg before
\* position i, 0 if none
QueuedAt(lg, e, i) ==
    LET qs == {q \in 1..(i - 1) : lg[q].k = "queue" /\ lg[q].n = e}
    IN  IF qs = {} THEN 0 ELSE CHOOSE q \in qs : \A x \in qs : x <= q

\* C19: an effect that runs in a wave was put on the queue before the wave
\* started; of two effects that run in one wave the one that runs first was
\* queued last; an effect queued while a wave is running does not run in
\* that wave, and if it was queued DIRTY and is not disposed it runs after
\* a later wave of the same operation has started.
C19_WaveOrder ==
    [][LET lg == log'
       IN  /\ \A i \in DOMAIN lg :
                  (lg[i].k = "run" /\ WaveOf(lg, i) > 0)
                  => LET m == WaveOf(lg, i)
                         q == QueuedAt(lg, lg[i].n, m)
                     IN  /\ q > 0
                         /\ \A r \in (q + 1)..(m - 1) :
                                ~(lg[r].k = "run" /\ lg[r].n = lg[i].n)
                         /\ \A j \in DOMAIN lg :
                                (/\ lg[j].k = "run" /\ i < j
                                 /\ WaveOf(lg, j) = m)
                                => QueuedAt(lg, lg[j].n, m) < q
           /\ \A q \in DOMAIN lg :
                  (lg[q].k = "queue" /\ WaveOf(lg, q) > 0)
                  => /\ \A i \in DOMAIN lg :
                            (/\ lg[i].k = "run" /\ lg[i].n = lg[q].n /\ q < i)
                            => WaveOf(lg, i) > WaveOf(lg, q)
                     /\ (lg[q].by = DIRTY /\ DISPOSED \notin flags'[lg[q].n])
                            => \E i \in DOMAIN lg :
                                   /\ lg[i].k = "run" /\ lg[i].n = lg[q].n
                                   /\ WaveOf(lg, i) > WaveOf(lg, q)]_vars

\* C19: a write to a queued two effects; both ran in the first wave, the one
\* queued last first; that one was queued again during the wave and ran
\* once more in a later wave
C19_Witness ==
    /\ op.k = "set" /\ op.n = "a"
    /\ \E i, j, k \in DOMAIN log :
           /\ i < j /\ j < k
           /\ log[i].k = "run" /\ log[j].k = "run" /\ log[k].k = "run"
           /\ log[i].n # log[j].n
           /\ WaveOf(log, i) > 0 /\ WaveOf(log, i) = WaveOf(log, j)
           /\ WaveOf(log, k) > WaveOf(log, j)
           /\ log[k].n = log[i].n
           /\ QueuedAt(log, log[k].n, k) > WaveOf(log, j)

\* the positions of lg after position i that hold an event of a kind in ks
After(lg, i, ks) == {j \in (i + 1)..Len(lg) : lg[j].k \in ks}

\* C20: every drain ends, after at most 100 waves; a value-changing write
\* made when batch_iteration has reached 100 stores the value and stamps the
\* epoch with the next tick of the write clock, and queues no effect; after
\* the operation the queue is empty and batch_iteration is 0.
C20_DrainTerminates ==
    [][LET lg == log'
       IN  /\ endless' = FALSE
           /\ \A i \in DOMAIN lg :
                  lg[i].k = "wave" => lg[i].v <= MaxBatchIteration
           /\ \A i \in DOMAIN lg :
                  (lg[i].k = "write" /\ lg[i].want >= MaxBatchIteration)
                  => /\ After(lg, i, {"queue", "wave"}) = {}
                     /\ \/ \E j \in After(lg, i, {"write"}) : lg[j].n = lg[i].n
                        \/ After(lg, i, {"computed"}) # {}
                        \/ /\ value'[lg[i].n] = lg[i].v
                           /\ epoch'[lg[i].n] =
                                  write_clock'
                                    - Cardinality(After(lg, i, {"write"}))
           /\ batched_effect' = None
           /\ batch_iteration' = 0]_vars

\* C20: two effects kept writing one another's input; the drain reached its
\* 100th wave, in which an effect wrote a signal that a live effect depends
\* on; the value and the epoch are stored, that effect did not run again
\* and the drain ended
C20_Witness ==
    /\ endless = FALSE
    /\ batched_effect = None
    /\ \E i \in DOMAIN log :
           /\ log[i].k = "write" /\ log[i].want = MaxBatchIteration
           /\ After(log, i, {"write", "computed", "run"}) = {}
           /\ value[log[i].n] = log[i].v
           /\ epoch[log[i].n] = write_clock
           /\ \E e \in Effects :
                  /\ \E x \in DOMAIN dependants[log[i].n] :
                         dependants[log[i].n][x] = e
                  /\ flags[e] \cap {DISPOSED, NOTIFIED, DIRTY} = {}
                  /\ stamp[e] < epoch[log[i].n]

\* the position in lg of the last write before position i, 0 if there is none
WriteBefore(lg, i) ==
    IF \E j \in 1..(i - 1) : lg[j].k = "write"
    THEN CHOOSE j \in 1..(i - 1) :
             /\ lg[j].k = "write"
             /\ \A x \in (j + 1)..(i - 1) : lg[x].k # "write"
    ELSE 0

\* C21: a notification that reaches an effect or a computed while it is
\* running leaves its flags and the batch queue as they were; no effect is
\* queued by a write that its own body made; and the body of an effect
\* runs in an operation only as often as the effect was queued in it, once
\* more in the operation that creates it: an effect that writes a signal
\* it reads is not run again because of that write.
C21_SelfReferenceGuard ==
    [][/\ \A i \in DOMAIN log' :
              log'[i].k = "renotified" => log'[i].v = 0 /\ log'[i].want = 0
       /\ \A i \in DOMAIN log' :
              log'[i].k = "queue" =>
                  /\ WriteBefore(log', i) > 0
                  /\ log'[WriteBefore(log', i)].l # log'[i].n
       /\ \A e \in ScenarioEffects :
              RunCount(log', e) <=
                  Cardinality(Positions(log', "queue", e))
                  + (IF op'.k = "effect" /\ op'.n = e THEN 1 ELSE 0)]_vars

\* one batch in which the body of e1 ran once and wrote a, which notified
\* e1 while it was running, directly and through the computed d2, and in
\* which d1 was notified by its own write to b while it was being recomputed
C21_Witness ==
    /\ op.k = "batch"
    /\ RunCount(log, "e1") = 1
    /\ \E i \in DOMAIN log :
           /\ log[i].k = "renotified" /\ log[i].n = "e1" /\ log[i].l = "e1"
           /\ log[i].by = DIRTY
           /\ log[WriteBefore(log, i)].n = "a"
    /\ \E i \in DOMAIN log :
           /\ log[i].k = "renotified" /\ log[i].n = "e1" /\ log[i].l = "e1"
           /\ log[i].by = MAYBE_DIRTY
    /\ \E i \in DOMAIN log :
           /\ log[i].k = "renotified" /\ log[i].n = "d1" /\ log[i].l = "d1"
           /\ log[WriteBefore(log, i)].n = "b"

\* how often listener l is in the array arr of dependants
Occurrences(arr, l) == Cardinality({i \in DOMAIN arr : arr[i] = l})

\* listener l did something in the operation logged in lg that ended with
\* the flags fl, for which it unsubscribes itself from a source: an effect
\* ran or is disposed, a computed was recomputed or is not tracking
Unsubscribing(lg, fl, l) ==
    IF l \in Effects
    THEN RunCount(lg, l) > 0 \/ DISPOSED \in fl[l]
    ELSE Positions(lg, "compute", l) # {} \/ TRACKING \notin fl[l]

\* C22: an unsubscribe removes only the given listener: a listener is in
\* the dependants of a source less often after an operation than before it
\* only if it unsubscribed itself in that operation, so no listener loses
\* a subscription to the unsubscribe of another listener.
C22_UnsubscribeOnlyTarget ==
    [][\A s \in Sources : \A l \in Listeners :
           Occurrences(dependants'[s], l) < Occurrences(dependants[s], l)
               => Unsubscribing(log', flags', l)]_vars

\* C23: when a public operation returns or throws, batch_depth is 0, the
\* batch queue is empty, no effect has NOTIFIED set, and eval_listener,
\* eval_untracked_sources and eval_sources_index are what they were before
\* the operation.
C23_ContextRestored ==
    [][/\ batch_depth' = 0
       /\ batched_effect' = None
       /\ \A e \in Effects : NOTIFIED \notin flags'[e]
       /\ eval_listener' = eval_listener
       /\ eval_untracked_sources' = eval_untracked_sources
       /\ eval_sources_index' = eval_sources_index]_vars

====
